---- MODULE Spec2Model ----
(***************************************************************************)
(* Model of the sheet -> issue-tracker reconciliation scripts:             *)
(*   scripts/issue_status_updater.py  (IssueStatusUpdater, "the updater")  *)
(*   scripts/sheet_monitor.py         (SheetMonitor, "the monitor")        *)
(* Text (titles, paper ids, statuses, fingerprints) is a sequence of       *)
(* one-character strings, so that prefix tests, replace, strip, lower and  *)
(* substring search are computed the way the Python code computes them.    *)
(***************************************************************************)
EXTENDS Integers, Sequences, FiniteSets, TLC

(***************************************************************************)
(* Bounds of the model                                                     *)
(***************************************************************************)
MaxRows == 2
MaxRuns == 2
MaxMonRows == 2
MaxMonRuns == 2
MaxOverlapRows == 1
MaxLabels == 3
MaxIssues == 2
MaxDataLines == 3

(***************************************************************************)
(* Text helpers (Python str methods)                                       *)
(***************************************************************************)
Range(s) == {s[i] : i \in 1..Len(s)}

Min(a, b) == IF a < b THEN a ELSE b

UpperAlpha ==
  <<"A","B","C","D","E","F","G","H","I","J","K","L","M",
    "N","O","P","Q","R","S","T","U","V","W","X","Y","Z">>

LowerAlpha ==
  <<"a","b","c","d","e","f","g","h","i","j","k","l","m",
    "n","o","p","q","r","s","t","u","v","w","x","y","z">>

LowerChar(c) ==
  IF \E i \in 1..Len(UpperAlpha) : UpperAlpha[i] = c
  THEN LowerAlpha[CHOOSE i \in 1..Len(UpperAlpha) : UpperAlpha[i] = c]
  ELSE c

\* str.lower()
Lower(s) == [i \in 1..Len(s) |-> LowerChar(s[i])]

\* str.startswith(p)
StartsWith(s, p) == Len(s) >= Len(p) /\ SubSeq(s, 1, Len(p)) = p

\* whether p occurs in s at position i
OccursAt(s, p, i) == i + Len(p) - 1 <= Len(s) /\ SubSeq(s, i, i + Len(p) - 1) = p

\* p in s
Contains(s, p) == \E i \in 1..(Len(s) + 1) : OccursAt(s, p, i)

\* str.replace(old, new): every non-overlapping occurrence, left to right
RECURSIVE Replace(_, _, _)
Replace(s, old, new) ==
  IF s = <<>> THEN <<>>
  ELSE IF old # <<>> /\ OccursAt(s, old, 1)
       THEN new \o Replace(SubSeq(s, Len(old) + 1, Len(s)), old, new)
       ELSE <<Head(s)>> \o Replace(Tail(s), old, new)

IsSpace(c) == c \in {" ", "\t", "\n", "\r"}

RECURSIVE LStrip(_)
LStrip(s) == IF s # <<>> /\ IsSpace(Head(s)) THEN LStrip(Tail(s)) ELSE s

RECURSIVE RStrip(_)
RStrip(s) ==
  IF s # <<>> /\ IsSpace(s[Len(s)]) THEN RStrip(SubSeq(s, 1, Len(s) - 1)) ELSE s

\* str.strip()
Strip(s) == RStrip(LStrip(s))

\* a variant for C28: the key asked for is not the key the file holds
GetDefault(d, key, default) == default

\* dict.get(key, default)
Get(d, key, default) == IF key \in DOMAIN d THEN d[key] ELSE default

\* a variant for C26: the assignment replaces the dict by the one entry
PutAlone(d, key, value) == (key :> value)

\* d[key] = value on a dict
Put(d, key, value) == (key :> value) @@ d

\* the empty dict / the empty list
Empty == <<>>

SeqsUpTo(S, n) == UNION {[1..k -> S] : k \in 0..n}

(***************************************************************************)
(* Program constants                                                       *)
(***************************************************************************)
\* 'per_page': 100 of the issue listing request; the request is made once
PerPage == 100

\* the title prefix "Paper Review: "
TitlePrefix == <<"P","a","p","e","r"," ","R","e","v","i","e","w",":"," ">>

SentinelLabel == "paper-review"

\* status_labels of _update_issue_labels
status_labels ==
  (<<"p","e","n","d","i","n","g">> :> "status-pending") @@
  (<<"i","n","_","p","r","o","g","r","e","s","s">> :> "status-in-progress") @@
  (<<"r","e","v","i","e","w","i","n","g">> :> "status-reviewing") @@
  (<<"c","o","m","p","l","e","t","e","d">> :> "status-completed") @@
  (<<"r","e","j","e","c","t","e","d">> :> "status-rejected") @@
  (<<"a","p","p","r","o","v","e","d">> :> "status-approved")

status_label_names == {status_labels[k] : k \in DOMAIN status_labels}

essential_labels == <<"paper-review", "automated">>

\* the label table of _create_status_labels: one POST per entry
StatusLabelColors ==
  {"status-pending", "status-in-progress", "status-reviewing",
   "status-completed", "status-rejected", "status-approved"}

(***************************************************************************)
(* State                                                                   *)
(***************************************************************************)
VARIABLES
  \* --- the world of the updater
  sheet,          \* rows the sheet export yields when the fetch succeeds
  tracker,        \* the remote tracker: [filler, issues]
  stateFile,      \* issue_status_state.json: [kind, content]
  \* --- IssueStatusUpdater.run
  uPc,            \* position in run()
  state,          \* state = self._load_state()
  last_updated,   \* last_updated = state.get('last_updated', {})
  sheet_data,     \* sheet_data = self._get_sheet_data()
  issue_mapping,  \* issue_mapping = self._get_existing_issues()
  uRow,           \* index of the next row of "for row in sheet_data"
  updates_made,
  runs,           \* runs of the updater started so far
  \* --- observations of the updater's remote calls
  writes,         \* remote-write calls of the current run, by kind
  rowLog,         \* what the current run did for each row, in order
  saved,          \* outcome of the current run's _save_state
  prevData,       \* sheet_data of the previous run
  prevOk,         \* the previous run's writes and its save all succeeded
  prevFailed,     \* rows whose write failed in the previous run
  diag,           \* kinds of diagnostics printed by the current run
  track,          \* whether the summary of the previous run is recorded
  missing_vars,   \* missing_vars of the current run's _validate_environment
  uOutcome,       \* how the current run ended: where run() returned
  uReads,         \* the current run's sheet GET, listing GET and state file reads
  loaded          \* what _load_state returned to the current run

uVars ==
  <<sheet, tracker, stateFile, uPc, state, last_updated, sheet_data,
    issue_mapping, uRow, updates_made, runs, writes, rowLog, saved,
    prevData, prevOk, prevFailed, diag, track, missing_vars, uOutcome,
    uReads, loaded>>

uPrev == <<prevData, prevOk, prevFailed, track>>

\* the updater's variables other than the tracker
uLocal ==
  <<sheet, stateFile, uPc, state, last_updated, sheet_data, issue_mapping, uRow,
    updates_made, runs, writes, rowLog, saved, prevData, prevOk, prevFailed,
    diag, track, missing_vars, uOutcome, uReads, loaded>>

\* what the steps inside the loop of the updater leave alone
uObs == <<missing_vars, uOutcome, uReads, loaded>>

VARIABLES
  \* --- the world of the monitor (it shares tracker)
  mSheet,              \* paper ids the sheet export yields when the fetch succeeds
  procFile,            \* sheet_state.json: [kind, content]
  board,               \* items of the project board
  \* --- SheetMonitor.run, one entry per run in progress
  mPc,                 \* position in run()
  mState,              \* state = self._load_state()
  processed_ids,       \* processed_ids = set(state.get('processed_paper_ids', []))
  current_paper_ids,   \* current_paper_ids = self._get_sheet_data()
  mRow,                \* index of the next id of "for paper_id in current_paper_ids"
  new_issues_created,
  project_id,          \* self.project_id
  \* --- observations of the monitor's remote calls
  mLog,                \* what each run did for each row, in order
  mSaved,              \* what each run handed to _save_state, and the outcome
  mRuns,               \* runs of the monitor started so far
  mMissing,            \* missing_vars of each run's _validate_environment
  mOutcome,            \* how each run ended: where run() returned
  mReads               \* each run's board lookup, sheet GET and state file reads

mVars ==
  <<mSheet, procFile, board, mPc, mState, processed_ids, current_paper_ids,
    mRow, new_issues_created, project_id, mLog, mSaved, mRuns, mMissing,
    mOutcome, mReads>>

\* what the steps inside the loop of the monitor leave alone
mObs == <<mMissing, mOutcome, mReads>>

VARIABLES
  env,   \* os.environ: the three required values, None when unset
  fn     \* a call of a pure function: its input and what it returned

\* everything but the updater's variables
uOther == <<mVars, env, fn>>

\* everything but the monitor's variables and the tracker
mOther == <<uLocal, env, fn>>

vars == <<uVars, mVars, env, fn>>

(***************************************************************************)
(* Inputs of the model                                                     *)
(***************************************************************************)
P1 == <<"P","1">>
P2 == <<"P","2">>

Row(paper_id, status, reviewer, notes) ==
  [paper_id |-> paper_id, status |-> status, reviewer |-> reviewer, notes |-> notes]

\* sheet rows: Scenario A's row, Scenario B's row (status in mixed case), and
\* a row of a second paper whose status is not in the status table
Rows ==
  { Row(P1, <<"p","e","n","d","i","n","g">>, <<"J">>, <<"W">>),
    Row(P1, <<"I","n","_","P","r","o","g","r","e","s","s">>, <<"A">>, <<>>),
    Row(P2, <<"h","o","l","d">>, <<"B">>, <<>>) }

\* the sheets: up to MaxRows rows, no row twice
Sheets ==
  {s \in SeqsUpTo(Rows, MaxRows) : \A i, j \in 1..Len(s) : s[i] = s[j] => i = j}

Title(paper_id) == TitlePrefix \o paper_id

Issue(number, title, labels) ==
  [number |-> number, title |-> title, labels |-> labels]

UnrelatedTitle == <<"U","n","r","e","l","a","t","e","d">>

\* the i-th of the newer issues that carry the sentinel label and whose title
\* lacks the prefix
FillerIssue(i) == Issue(1000 + i, UnrelatedTitle, <<SentinelLabel>>)

InitialLabels == <<"paper-review", "automated">>

Trackers ==
  { [filler |-> 0, issues |-> <<>>],
    [filler |-> 0, issues |-> <<Issue(2, Title(P2), InitialLabels),
                                Issue(1, Title(P1), InitialLabels \o <<"status-pending">>)>>],
    [filler |-> 0, issues |-> <<Issue(3, Title(P1), InitialLabels),
                                Issue(1, Title(P1), InitialLabels \o <<"status-pending">>)>>],
    [filler |-> PerPage, issues |-> <<Issue(1, Title(P1), InitialLabels)>>] }

(***************************************************************************)
(* The remote tracker (Remote Issue Gateway)                               *)
(***************************************************************************)
HasLabel(issue, label) == label \in Range(issue.labels)

\* every issue of the tracker that carries the sentinel label, newest first
Listing(tr) ==
  SelectSeq([i \in 1..tr.filler |-> FillerIssue(i)] \o tr.issues,
            LAMBDA issue : HasLabel(issue, SentinelLabel))

\* the one response page the listing request gets
FirstPage(listing) == SubSeq(listing, 1, Min(Len(listing), PerPage))

\* PATCH /issues/{number} {'labels': labels} answered 200
PatchLabels(tr, number, labels) ==
  [tr EXCEPT !.issues =
     [k \in DOMAIN tr.issues |->
        IF tr.issues[k].number = number
        THEN [tr.issues[k] EXCEPT !.labels = labels]
        ELSE tr.issues[k]]]

(***************************************************************************)
(* The environment and the exit of the process (both scripts)              *)
(***************************************************************************)
\* what os.environ.get gives for a variable that is not set
Unset == "None"

\* __init__: self.sheet_id, self.github_token, self.github_repo
Environ(sheet_id, github_token, github_repo) ==
  [sheet_id |-> sheet_id, github_token |-> github_token, github_repo |-> github_repo]

\* "not value" of Python: None and the empty string
Falsy(value) == value = Unset \/ value = ""

\* the environments: complete; the sheet id not set; the token set to the
\* empty string and the repository not set; nothing set
Envs ==
  { Environ("sheet", "token", "owner/repo"),
    Environ(Unset, "token", "owner/repo"),
    Environ("sheet", "", Unset),
    Environ(Unset, Unset, Unset) }

\* missing_vars of _validate_environment, in the order of its three tests
MissingVars(e) ==
  (IF Falsy(e.sheet_id) THEN <<"GOOGLE_SHEET_ID">> ELSE <<>>)
  \o (IF Falsy(e.github_token) THEN <<"GITHUB_TOKEN">> ELSE <<>>)
  \o (IF Falsy(e.github_repo) THEN <<"GITHUB_REPOSITORY">> ELSE <<>>)

\* a variant for C12: the validation lets every environment pass
ValidateEnvironmentAlways(e) == TRUE

\* the return value of _validate_environment
ValidateEnvironment(e) == MissingVars(e) = <<>>

\* the exit status of the process: run() returns to the main block in every
\* case, neither calls sys.exit, so the interpreter exits with 0
ExitStatus(outcome) == 0

(***************************************************************************)
(* IssueStatusUpdater: pure parts                                          *)
(***************************************************************************)
\* the default of _load_state
DefaultState == [last_updated |-> Empty, issue_mapping |-> Empty]

MissingFile == [kind |-> "missing", content |-> Empty]
CorruptFile == [kind |-> "corrupt", content |-> Empty]
JsonFile(content) == [kind |-> "json", content |-> content]

\* _load_state: the file's JSON, or the default when it is missing or unreadable
LoadState(file) == IF file.kind = "json" THEN file.content ELSE DefaultState

\* _save_state: open(..., 'w') truncates, json.dump writes. "open_failed":
\* open raises, the file is untouched. "write_failed": the dump does not reach
\* its end after the truncation, because it raises (printed and swallowed) or
\* because the process dies there; the file is left empty or partial. Nothing
\* but a print follows _save_state in run(), so the two look the same.
SaveOutcomes == {"ok", "open_failed", "write_failed"}

SaveState(file, content, outcome) ==
  CASE outcome = "ok" -> JsonFile(content)
    [] outcome = "open_failed" -> file
    [] outcome = "write_failed" -> CorruptFile

\* current_data = f"{status}|{reviewer}|{notes}"
Fingerprint(row) == row.status \o <<"|">> \o row.reviewer \o <<"|">> \o row.notes

\* paper_id = title.replace('Paper Review: ', '').strip()
ExtractPaperId(title) == Strip(Replace(title, TitlePrefix, <<>>))

IndexEntry(issue) ==
  [number |-> issue.number, title |-> issue.title, labels |-> issue.labels]

\* the loop of _get_existing_issues over the issues of the response, in order:
\* every issue whose title starts with the prefix is stored under its
\* paper_id, a later one overwriting an earlier one of the same paper_id
BuildIndex(issues) ==
  LET qualifying == {i \in 1..Len(issues) : StartsWith(issues[i].title, TitlePrefix)}
      key(i) == ExtractPaperId(issues[i].title)
      last(k) == CHOOSE i \in qualifying :
                   key(i) = k /\ \A j \in qualifying : key(j) = k => j <= i
  IN [k \in {key(i) : i \in qualifying} |-> IndexEntry(issues[last(k)])]

ListOutcomes == {"200", "error"}

\* _get_existing_issues: one GET; 200 gives the index of the response's
\* issues, anything else the empty index
GetExistingIssues(tr, outcome) ==
  IF outcome = "200" THEN BuildIndex(FirstPage(Listing(tr))) ELSE Empty

AppendIfAbsent(labels, label) ==
  IF label \in Range(labels) THEN labels ELSE Append(labels, label)

RECURSIVE AppendAllIfAbsent(_, _)
AppendAllIfAbsent(labels, more) ==
  IF more = <<>> THEN labels
  ELSE AppendAllIfAbsent(AppendIfAbsent(labels, Head(more)), Tail(more))

\* a variant for C14: the old status labels are not removed
UpdateIssueLabelsNoStrip(current_labels, new_status) ==
  LET withStatus ==
        IF Lower(new_status) \in DOMAIN status_labels
        THEN AppendIfAbsent(current_labels, status_labels[Lower(new_status)])
        ELSE current_labels
  IN AppendAllIfAbsent(withStatus, essential_labels)

\* a variant for C16: "if new_label not in updated_labels" looks at the
\* labels before the removal
UpdateIssueLabelsStaleCheck(current_labels, new_status) ==
  LET stripped == SelectSeq(current_labels, LAMBDA label : label \notin status_label_names)
      withStatus ==
        IF /\ Lower(new_status) \in DOMAIN status_labels
           /\ status_labels[Lower(new_status)] \notin Range(current_labels)
        THEN Append(stripped, status_labels[Lower(new_status)])
        ELSE stripped
  IN AppendAllIfAbsent(withStatus, essential_labels)

\* _update_issue_labels(issue_number, current_labels, new_status)
UpdateIssueLabels(current_labels, new_status) ==
  LET stripped == SelectSeq(current_labels, LAMBDA label : label \notin status_label_names)
      withStatus ==
        IF Lower(new_status) \in DOMAIN status_labels
        THEN AppendIfAbsent(stripped, status_labels[Lower(new_status)])
        ELSE stripped
  IN AppendAllIfAbsent(withStatus, essential_labels)

PatchOutcomes == {"200", "500", "exception"}
CommentOutcomes == {"201", "500", "exception"}

\* _update_issue posts the comment only after a PATCH answered 200
CommentAttempted(patch) == patch = "200"

\* a variant for C2: _update_issue returns True whatever the PATCH answered
UpdateIssueReturnAlways(patch, comment) == TRUE

\* the return value of _update_issue: the PATCH's outcome alone; the return
\* value of _add_status_comment is dropped
UpdateIssueReturn(patch, comment) == patch = "200"

\* a variant for C4: the comparison with the stored fingerprint is dropped
UpdateNeededAlways(stored, paper_id, current_data) == TRUE

\* "if current_data != last_update" with last_update = last_updated.get(paper_id, '')
UpdateNeeded(stored, paper_id, current_data) == current_data # Get(stored, paper_id, Empty)

(***************************************************************************)
(* IssueStatusUpdater.run, step by step                                    *)
(***************************************************************************)
NoWrites == [labelPost |-> 0, patch |-> 0, comment |-> 0]

NoReads == [sheetGet |-> 0, listGet |-> 0, load |-> 0]

\* a row's remote write was attempted and the PATCH or the comment failed
WriteFailed(e) == e.patchCalls = 1 /\ ~(e.patchOk /\ e.commentOk)

\* a row's remote write was attempted and both calls succeeded
WriteSucceeded(e) == e.patchCalls = 1 /\ e.patchOk /\ e.commentOk

\* summary of a finished run: the loop ran, the state was saved, and no
\* attempted write failed
AllWritesOk(log, saveOutcome) ==
  saveOutcome = "ok" /\ \A i \in 1..Len(log) : ~WriteFailed(log[i])

\* summary of a finished run: the rows with a failed write and no successful one
FailedRows(log) ==
  {log[i].row : i \in {j \in 1..Len(log) : WriteFailed(log[j])}}
  \ {log[i].row : i \in {j \in 1..Len(log) : WriteSucceeded(log[j])}}

\* run() is entered: "if not self._validate_environment(): return"
UStart ==
  /\ uPc \in {"idle", "done"}
  /\ runs < MaxRuns
  /\ runs' = runs + 1
  /\ missing_vars' = MissingVars(env)
  /\ IF ValidateEnvironment(env)
     THEN uPc' = "labels" /\ uOutcome' = "running"
     ELSE uPc' = "done" /\ uOutcome' = "config_missing"
  /\ uReads' = NoReads
  /\ loaded' = DefaultState
  /\ IF track
     THEN /\ prevData' = sheet_data
          /\ prevOk' = AllWritesOk(rowLog, saved)
          /\ prevFailed' = FailedRows(rowLog)
     ELSE UNCHANGED <<prevData, prevOk, prevFailed>>
  /\ UNCHANGED track
  /\ state' = DefaultState
  /\ last_updated' = Empty
  /\ sheet_data' = <<>>
  /\ issue_mapping' = Empty
  /\ uRow' = 1
  /\ updates_made' = 0
  /\ writes' = NoWrites
  /\ rowLog' = <<>>
  /\ saved' = "none"
  /\ diag' = {}
  /\ UNCHANGED <<sheet, tracker, stateFile>>
  /\ UNCHANGED uOther

\* self._create_status_labels(): one POST per label of the table, whatever
\* the answers
UCreateStatusLabels ==
  /\ uPc = "labels"
  /\ writes' = [writes EXCEPT !.labelPost = @ + Cardinality(StatusLabelColors)]
  /\ uPc' = "load"
  /\ UNCHANGED <<sheet, tracker, stateFile, state, last_updated, sheet_data,
                 issue_mapping, uRow, updates_made, runs, rowLog, saved, diag>>
  /\ UNCHANGED uObs
  /\ UNCHANGED uPrev
  /\ UNCHANGED uOther

\* state = self._load_state(); last_updated = state.get('last_updated', {})
ULoadState ==
  /\ uPc = "load"
  /\ state' = LoadState(stateFile)
  /\ last_updated' = Get(LoadState(stateFile), "last_updated", Empty)
  /\ loaded' = LoadState(stateFile)
  /\ uReads' = [uReads EXCEPT !.load = @ + 1]
  /\ UNCHANGED <<missing_vars, uOutcome>>
  /\ uPc' = "fetch"
  /\ UNCHANGED <<sheet, tracker, stateFile, sheet_data, issue_mapping, uRow,
                 updates_made, runs, writes, rowLog, saved, diag>>
  /\ UNCHANGED uPrev
  /\ UNCHANGED uOther

FetchOutcomes == {"ok", "error"}

\* _get_sheet_data of the updater: the rows, or [] on any error
GetSheetData(rows, outcome) == IF outcome = "ok" THEN rows ELSE <<>>

\* sheet_data = self._get_sheet_data(); "if not sheet_data: return"
UGetSheetData ==
  /\ uPc = "fetch"
  /\ \E outcome \in FetchOutcomes :
       /\ sheet_data' = GetSheetData(sheet, outcome)
       /\ uPc' = IF GetSheetData(sheet, outcome) = <<>> THEN "done" ELSE "list"
       /\ uOutcome' = IF GetSheetData(sheet, outcome) = <<>> THEN "no_data" ELSE uOutcome
  /\ uReads' = [uReads EXCEPT !.sheetGet = @ + 1]
  /\ UNCHANGED <<missing_vars, loaded>>
  /\ UNCHANGED <<sheet, tracker, stateFile, state, last_updated, issue_mapping,
                 uRow, updates_made, runs, writes, rowLog, saved, diag>>
  /\ UNCHANGED uPrev
  /\ UNCHANGED uOther

\* issue_mapping = self._get_existing_issues()
UGetExistingIssues ==
  /\ uPc = "list"
  /\ \E outcome \in ListOutcomes :
       /\ issue_mapping' = GetExistingIssues(tracker, outcome)
       /\ diag' = IF outcome = "200" THEN diag ELSE diag \cup {"fetch_issues_failed"}
  /\ uPc' = "loop"
  /\ uRow' = 1
  /\ uReads' = [uReads EXCEPT !.listGet = @ + 1]
  /\ UNCHANGED <<missing_vars, uOutcome, loaded>>
  /\ UNCHANGED <<sheet, tracker, stateFile, state, last_updated, sheet_data,
                 updates_made, runs, writes, rowLog, saved>>
  /\ UNCHANGED uPrev
  /\ UNCHANGED uOther

\* a variant for C6: the loop of the updater stops at the first failed record
AfterRowBreak(i, n, ok) == IF ok THEN i + 1 ELSE n + 1

\* "for row in sheet_data": the row after row i of n, whatever came of row i
AfterRow(i, n, ok) == i + 1

LogEntry(row, found, patchCalls, patchOk, commentCalls, commentOk, before, after) ==
  [row |-> row, found |-> found,
   inStore |-> row.paper_id \in DOMAIN before,
   stored |-> Get(before, row.paper_id, Empty),
   patchCalls |-> patchCalls, patchOk |-> patchOk,
   commentCalls |-> commentCalls, commentOk |-> commentOk,
   storedAfter |-> Get(after, row.paper_id, Empty)]

\* loop body, "else" of "if paper_id in issue_mapping"
UNoIssue ==
  /\ uPc = "loop"
  /\ uRow <= Len(sheet_data)
  /\ sheet_data[uRow].paper_id \notin DOMAIN issue_mapping
  /\ rowLog' = Append(rowLog, LogEntry(sheet_data[uRow], FALSE, 0, FALSE, 0, FALSE,
                                       last_updated, last_updated))
  /\ uRow' = AfterRow(uRow, Len(sheet_data), TRUE)
  /\ UNCHANGED <<sheet, tracker, stateFile, uPc, state, last_updated, sheet_data,
                 issue_mapping, updates_made, runs, writes, saved, diag>>
  /\ UNCHANGED uObs
  /\ UNCHANGED uPrev
  /\ UNCHANGED uOther

\* loop body, "else" of "if current_data != last_update"
UNoChange ==
  /\ uPc = "loop"
  /\ uRow <= Len(sheet_data)
  /\ sheet_data[uRow].paper_id \in DOMAIN issue_mapping
  /\ ~UpdateNeeded(last_updated, sheet_data[uRow].paper_id, Fingerprint(sheet_data[uRow]))
  /\ rowLog' = Append(rowLog, LogEntry(sheet_data[uRow], TRUE, 0, FALSE, 0, FALSE,
                                       last_updated, last_updated))
  /\ uRow' = AfterRow(uRow, Len(sheet_data), TRUE)
  /\ UNCHANGED <<sheet, tracker, stateFile, uPc, state, last_updated, sheet_data,
                 issue_mapping, updates_made, runs, writes, saved, diag>>
  /\ UNCHANGED uObs
  /\ UNCHANGED uPrev
  /\ UNCHANGED uOther

\* loop body, the update: _update_issue_labels, _update_issue (PATCH, then
\* _add_status_comment), and the bookkeeping of run()
UUpdate ==
  /\ uPc = "loop"
  /\ uRow <= Len(sheet_data)
  /\ sheet_data[uRow].paper_id \in DOMAIN issue_mapping
  /\ UpdateNeeded(last_updated, sheet_data[uRow].paper_id, Fingerprint(sheet_data[uRow]))
  /\ \E patch \in PatchOutcomes, comment \in CommentOutcomes :
       LET row == sheet_data[uRow]
           paper_id == row.paper_id
           issue == issue_mapping[paper_id]
           current_data == Fingerprint(row)
           new_labels == UpdateIssueLabels(issue.labels, row.status)
           patchOk == patch = "200"
           commentCalls == IF CommentAttempted(patch) THEN 1 ELSE 0
           commentOk == CommentAttempted(patch) /\ comment = "201"
           success == UpdateIssueReturn(patch, comment)
           after == IF success THEN Put(last_updated, paper_id, current_data)
                    ELSE last_updated
       IN /\ tracker' = IF patchOk THEN PatchLabels(tracker, issue.number, new_labels)
                        ELSE tracker
          /\ writes' = [writes EXCEPT !.patch = @ + 1, !.comment = @ + commentCalls]
          /\ last_updated' = after
          /\ updates_made' = IF success THEN updates_made + 1 ELSE updates_made
          /\ rowLog' = Append(rowLog, LogEntry(row, TRUE, 1, patchOk, commentCalls,
                                               commentOk, last_updated, after))
          /\ uRow' = AfterRow(uRow, Len(sheet_data), success)
  /\ UNCHANGED <<sheet, stateFile, uPc, state, sheet_data, issue_mapping, runs,
                 saved, diag>>
  /\ UNCHANGED uObs
  /\ UNCHANGED uPrev
  /\ UNCHANGED uOther

\* after the loop: state['last_updated'] = last_updated; self._save_state(state)
USaveState ==
  /\ uPc = "loop"
  /\ uRow > Len(sheet_data)
  /\ state' = [state EXCEPT !.last_updated = last_updated]
  /\ \E outcome \in SaveOutcomes :
       /\ stateFile' = SaveState(stateFile, [state EXCEPT !.last_updated = last_updated],
                                 outcome)
       /\ saved' = outcome
       /\ uOutcome' = "completed"
  /\ uPc' = "done"
  /\ UNCHANGED <<missing_vars, uReads, loaded>>
  /\ UNCHANGED <<sheet, tracker, last_updated, sheet_data, issue_mapping, uRow,
                 updates_made, runs, writes, rowLog, diag>>
  /\ UNCHANGED uPrev
  /\ UNCHANGED uOther

\* between two runs somebody edits one row of the sheet, adds a row or
\* deletes the last one
EditedSheets(s) ==
  ( {[s EXCEPT ![i] = r] : i \in DOMAIN s, r \in Rows}
    \cup {Append(s, r) : r \in Rows}
    \cup {SubSeq(s, 1, Len(s) - 1)} ) \cap (Sheets \ {s})

UEditSheet ==
  /\ uPc \in {"idle", "done"}
  /\ runs < MaxRuns
  /\ \E s \in EditedSheets(sheet) : sheet' = s
  /\ UNCHANGED <<tracker, stateFile, uPc, state, last_updated, sheet_data,
                 issue_mapping, uRow, updates_made, runs, writes, rowLog, saved,
                 diag>>
  /\ UNCHANGED uObs
  /\ UNCHANGED uPrev
  /\ UNCHANGED uOther

UNext ==
  \/ UStart
  \/ UCreateStatusLabels
  \/ ULoadState
  \/ UGetSheetData
  \/ UGetExistingIssues
  \/ UNoIssue
  \/ UNoChange
  \/ UUpdate
  \/ USaveState
  \/ UEditSheet

UInit ==
  /\ sheet \in Sheets
  /\ tracker \in Trackers
  /\ stateFile = MissingFile
  /\ uPc = "idle"
  /\ state = DefaultState
  /\ last_updated = Empty
  /\ sheet_data = <<>>
  /\ issue_mapping = Empty
  /\ uRow = 1
  /\ updates_made = 0
  /\ runs = 0
  /\ writes = NoWrites
  /\ rowLog = <<>>
  /\ saved = "none"
  /\ prevData = <<>>
  /\ prevOk = FALSE
  /\ prevFailed = {}
  /\ diag = {}
  /\ missing_vars = <<>>
  /\ uOutcome = "none"
  /\ uReads = NoReads
  /\ loaded = DefaultState
  /\ env \in Envs

(***************************************************************************)
(* SheetMonitor: pure parts and the remote calls                           *)
(***************************************************************************)
RunIds == {"a", "b"}

MonIds == {P1, P2}

MonSheets == SeqsUpTo(MonIds, MaxMonRows)

OverlapSheets == SeqsUpTo(MonIds, MaxOverlapRows)

\* a title without the prefix that mentions a paper id
MentionTitle == <<"N","o","t","e","s"," ","o","n"," ","P","1">>

\* the tracker and sheet_state.json at the start: nothing yet; only an issue
\* whose title lacks the prefix; an issue of P1 and no file; an issue of P1
\* that an earlier run created and recorded
MonWorlds ==
  { [tracker |-> [filler |-> 0, issues |-> <<>>], file |-> "missing"],
    [tracker |-> [filler |-> 0, issues |-> <<Issue(7, MentionTitle, <<SentinelLabel>>)>>],
     file |-> "missing"],
    [tracker |-> [filler |-> 1, issues |-> <<Issue(1, Title(P1), InitialLabels)>>],
     file |-> "missing"],
    [tracker |-> [filler |-> 1, issues |-> <<Issue(1, Title(P1), InitialLabels)>>],
     file |-> "P1"] }

\* the worlds of a recorded paper: nothing yet; the issue of P1 that an
\* earlier run created and recorded; P1 recorded and its issue gone since
ProcWorlds ==
  { [tracker |-> [filler |-> 0, issues |-> <<>>], file |-> "missing"],
    [tracker |-> [filler |-> 1, issues |-> <<Issue(1, Title(P1), InitialLabels)>>],
     file |-> "P1"],
    [tracker |-> [filler |-> 0, issues |-> <<>>], file |-> "P1"] }

\* the default of the monitor's _load_state
DefaultProcState == [processed_paper_ids |-> {}]

\* the monitor's _load_state
LoadProcState(file) == IF file.kind = "json" THEN file.content ELSE DefaultProcState

\* _get_sheet_data of the monitor: the first column, or [] on any error
GetPaperIds(ids, outcome) == IF outcome = "ok" THEN ids ELSE <<>>

SearchOutcomes == {"200", "error"}

\* _check_existing_issues: True iff the GET answered 200 and some issue of the
\* response has paper_id in its title
CheckExistingIssues(tr, paper_id, outcome) ==
  /\ outcome = "200"
  /\ \E i \in 1..Len(Listing(tr)) : Contains(Listing(tr)[i].title, paper_id)

CreateOutcomes == {"201", "error"}

\* the number the tracker gives a new issue
NextNumber(tr) ==
  LET all == [i \in 1..tr.filler |-> FillerIssue(i)] \o tr.issues
      numbers == {all[i].number : i \in 1..Len(all)}
  IN IF numbers = {} THEN 1
     ELSE 1 + CHOOSE n \in numbers : \A m \in numbers : m <= n

\* a variant for C22: the new issue is given a status label as well
CreateRequestWithStatus(paper_id) ==
  [title |-> Title(paper_id),
   labels |-> <<"paper-review", "automated", "status-pending">>]

\* the title and the labels of the data of _create_github_issue
CreateRequest(paper_id) ==
  [title |-> Title(paper_id), labels |-> <<"paper-review", "automated">>]

\* POST /issues answered 201: title 'Paper Review: {paper_id}', labels
\* ['paper-review', 'automated']
CreateIssue(tr, paper_id) ==
  [tr EXCEPT !.issues =
     <<Issue(NextNumber(tr), CreateRequest(paper_id).title,
             CreateRequest(paper_id).labels)>> \o @]

\* _get_project_id_by_number: the board's id, or None
NoProject == "None"
ProjectIds == {NoProject, "PVT_6"}

\* _add_issue_to_project: the item was added; GraphQL errors and the draft
\* fallback succeeded; or nothing was added
AttachOutcomes == {"added", "drafted", "failed"}

AddIssueToProject(b, paper_id, outcome) ==
  CASE outcome = "added" -> b \cup {[kind |-> "issue", title |-> Title(paper_id)]}
    [] outcome = "drafted" -> b \cup {[kind |-> "draft", title |-> Title(paper_id)]}
    [] outcome = "failed" -> b

\* a variant for C19: a board failure makes _create_github_issue return False
CreateIssueReturnNeedsBoard(create, attach) == create = "201" /\ attach # "failed"

\* the return value of _create_github_issue: whether the POST answered 201,
\* whatever came of the board
CreateIssueReturn(create, attach) == create = "201"

\* a variant for C10: a run creates whatever its existence search reported
ShouldCreateAlways(exists) == TRUE

\* run(): "if not self._check_existing_issues(paper_id)" decides to create
ShouldCreate(exists) == ~exists

\* a variant for C9: the branch "Issue already exists" forgets the paper_id
ProcessedAfterExistsForgets(processed, paper_id) == processed

\* run(): processed_ids.add(paper_id) in the branch "Issue already exists"
ProcessedAfterExists(processed, paper_id) == processed \cup {paper_id}

\* run(): "for paper_id in current_paper_ids": the id after id i of n
MAfterRow(i, n, ok) == i + 1

MonEntry(paper_id, action, searchCalls, search, found, createCalls, createOk) ==
  [paper_id |-> paper_id, action |-> action, searchCalls |-> searchCalls,
   search |-> search, found |-> found, createCalls |-> createCalls,
   createOk |-> createOk, attach |-> "none", request |-> "none"]

NoMonReads == [lookup |-> 0, sheetGet |-> 0, load |-> 0]

NotSaved == [called |-> FALSE, content |-> DefaultProcState, outcome |-> "none"]

(***************************************************************************)
(* SheetMonitor.run, step by step; the runs in RunIds may overlap          *)
(***************************************************************************)
\* run() up to the loop: "if not self._validate_environment(): return";
\* self.project_id = self._get_project_id_by_number(self.project_number);
\* state = self._load_state();
\* processed_ids = set(state.get('processed_paper_ids', []));
\* current_paper_ids = self._get_sheet_data(); "if not current_paper_ids: return"
\* ids: what the board lookup of this run can answer; fetches: how the GET
\* of the sheet can end
MBeginBody(r, ids, fetches) ==
  /\ mPc[r] \in {"idle", "done"}
  /\ mMissing' = [mMissing EXCEPT ![r] = MissingVars(env)]
  /\ IF ValidateEnvironment(env)
     THEN /\ \E id \in ids : project_id' = [project_id EXCEPT ![r] = id]
          /\ mState' = [mState EXCEPT ![r] = LoadProcState(procFile)]
          /\ processed_ids' =
               [processed_ids EXCEPT
                  ![r] = Get(LoadProcState(procFile), "processed_paper_ids", {})]
          /\ \E outcome \in fetches :
               /\ current_paper_ids' =
                    [current_paper_ids EXCEPT ![r] = GetPaperIds(mSheet, outcome)]
               /\ mPc' = [mPc EXCEPT ![r] =
                            IF GetPaperIds(mSheet, outcome) = <<>> THEN "done" ELSE "loop"]
               /\ mOutcome' = [mOutcome EXCEPT ![r] =
                                 IF GetPaperIds(mSheet, outcome) = <<>> THEN "no_data"
                                 ELSE "running"]
          /\ mReads' = [mReads EXCEPT ![r] = [lookup |-> 1, sheetGet |-> 1, load |-> 1]]
     ELSE /\ project_id' = [project_id EXCEPT ![r] = NoProject]
          /\ mState' = [mState EXCEPT ![r] = DefaultProcState]
          /\ processed_ids' = [processed_ids EXCEPT ![r] = {}]
          /\ current_paper_ids' = [current_paper_ids EXCEPT ![r] = <<>>]
          /\ mPc' = [mPc EXCEPT ![r] = "done"]
          /\ mOutcome' = [mOutcome EXCEPT ![r] = "config_missing"]
          /\ mReads' = [mReads EXCEPT ![r] = NoMonReads]
  /\ mRow' = [mRow EXCEPT ![r] = 1]
  /\ new_issues_created' = [new_issues_created EXCEPT ![r] = 0]
  /\ mLog' = [mLog EXCEPT ![r] = <<>>]
  /\ mSaved' = [mSaved EXCEPT ![r] = NotSaved]
  /\ UNCHANGED <<mSheet, procFile, board, tracker>>

\* one of the first MaxMonRuns runs: any remote call may fail
MBeginWith(r, ids) ==
  /\ mRuns < MaxMonRuns
  /\ mRuns' = mRuns + 1
  /\ MBeginBody(r, ids, FetchOutcomes)

MBegin(r) == MBeginWith(r, ProjectIds)

\* the remote calls have come to succeed: the runs after the first MaxMonRuns
Calm == mRuns > MaxMonRuns

\* how a remote call can end: any way, or well once the calls succeed
Answers(outcomes, good) == IF Calm THEN {good} ELSE outcomes

\* a run after the first MaxMonRuns: the schedule starts run() again
MBeginCalm(r) ==
  /\ mRuns >= MaxMonRuns
  /\ mRuns' = MaxMonRuns + 1
  /\ MBeginBody(r, ProjectIds, {"ok"})

\* loop body, "if paper_id not in processed_ids" is false
MSkipProcessed(r) ==
  /\ mPc[r] = "loop"
  /\ mRow[r] <= Len(current_paper_ids[r])
  /\ current_paper_ids[r][mRow[r]] \in processed_ids[r]
  /\ mLog' = [mLog EXCEPT ![r] =
                Append(@, MonEntry(current_paper_ids[r][mRow[r]], "processed",
                                   0, "none", FALSE, 0, FALSE))]
  /\ mRow' = [mRow EXCEPT ![r] = MAfterRow(@, Len(current_paper_ids[r]), TRUE)]
  /\ UNCHANGED <<mSheet, procFile, board, tracker, mPc, mState, processed_ids,
                 current_paper_ids, new_issues_created, project_id, mSaved, mRuns>>
  /\ UNCHANGED mObs

\* loop body, self._check_existing_issues(paper_id) and, when it reports an
\* issue, the branch "Issue already exists"
MCheckExisting(r) ==
  /\ mPc[r] = "loop"
  /\ mRow[r] <= Len(current_paper_ids[r])
  /\ current_paper_ids[r][mRow[r]] \notin processed_ids[r]
  /\ \E outcome \in Answers(SearchOutcomes, "200") :
       LET paper_id == current_paper_ids[r][mRow[r]]
           exists == CheckExistingIssues(tracker, paper_id, outcome)
       IN IF ShouldCreate(exists)
          THEN /\ mPc' = [mPc EXCEPT ![r] = "create"]
               /\ mLog' = [mLog EXCEPT ![r] =
                             Append(@, MonEntry(paper_id, "creating", 1, outcome,
                                                exists, 0, FALSE))]
               /\ UNCHANGED <<processed_ids, mRow>>
          ELSE /\ processed_ids' =
                    [processed_ids EXCEPT ![r] = ProcessedAfterExists(@, paper_id)]
               /\ mLog' = [mLog EXCEPT ![r] =
                             Append(@, MonEntry(paper_id, "exists", 1, outcome,
                                                exists, 0, FALSE))]
               /\ mRow' = [mRow EXCEPT ![r] = MAfterRow(@, Len(current_paper_ids[r]), TRUE)]
               /\ UNCHANGED mPc
  /\ UNCHANGED <<mSheet, procFile, board, tracker, mState, current_paper_ids,
                 new_issues_created, project_id, mSaved, mRuns>>
  /\ UNCHANGED mObs

\* loop body, "if self._create_github_issue(paper_id)": the POST, the board,
\* and the bookkeeping of run()
MCreateIssue(r) ==
  /\ mPc[r] = "create"
  /\ \E create \in Answers(CreateOutcomes, "201"), attach \in AttachOutcomes :
       LET paper_id == current_paper_ids[r][mRow[r]]
           createOk == create = "201"
           attached == createOk /\ project_id[r] # NoProject
           success == CreateIssueReturn(create, attach)
           last == mLog[r][Len(mLog[r])]
       IN /\ tracker' = IF createOk THEN CreateIssue(tracker, paper_id) ELSE tracker
          /\ board' = IF attached THEN AddIssueToProject(board, paper_id, attach) ELSE board
          /\ new_issues_created' =
               [new_issues_created EXCEPT ![r] = IF success THEN @ + 1 ELSE @]
          /\ processed_ids' =
               [processed_ids EXCEPT ![r] = IF success THEN @ \cup {paper_id} ELSE @]
          /\ mLog' = [mLog EXCEPT ![r] =
                        [@ EXCEPT ![Len(@)] =
                           [last EXCEPT !.action = IF success THEN "created"
                                                   ELSE "create_failed",
                                        !.createCalls = 1,
                                        !.createOk = createOk,
                                        !.request = CreateRequest(paper_id),
                                        !.attach = IF attached THEN attach
                                                   ELSE "none"]]]
          /\ mRow' = [mRow EXCEPT ![r] = MAfterRow(@, Len(current_paper_ids[r]), success)]
  /\ mPc' = [mPc EXCEPT ![r] = "loop"]
  /\ UNCHANGED <<mSheet, procFile, mState, current_paper_ids, project_id, mSaved,
                 mRuns>>
  /\ UNCHANGED mObs

\* after the loop: state['processed_paper_ids'] = list(processed_ids);
\* self._save_state(state)
MSaveState(r) ==
  /\ mPc[r] = "loop"
  /\ mRow[r] > Len(current_paper_ids[r])
  /\ mState' = [mState EXCEPT ![r] = [@ EXCEPT !.processed_paper_ids = processed_ids[r]]]
  /\ \E outcome \in SaveOutcomes :
       LET content == [mState[r] EXCEPT !.processed_paper_ids = processed_ids[r]]
       IN /\ procFile' = SaveState(procFile, content, outcome)
          /\ mSaved' = [mSaved EXCEPT ![r] =
                          [called |-> TRUE, content |-> content, outcome |-> outcome]]
          /\ mOutcome' = [mOutcome EXCEPT ![r] = "completed"]
  /\ mPc' = [mPc EXCEPT ![r] = "done"]
  /\ UNCHANGED <<mMissing, mReads>>
  /\ UNCHANGED <<mSheet, board, tracker, processed_ids, current_paper_ids, mRow,
                 new_issues_created, project_id, mLog, mRuns>>

\* the loop of a run and the save after it
MRun(r) ==
  \/ MSkipProcessed(r) /\ UNCHANGED mOther
  \/ MCheckExisting(r) /\ UNCHANGED mOther
  \/ MCreateIssue(r) /\ UNCHANGED mOther
  \/ MSaveState(r) /\ UNCHANGED mOther

\* one run after the other
MNext ==
  \/ MBegin("a") /\ UNCHANGED mOther
  \/ MRun("a")

InProgress(r) == mPc[r] \in {"loop", "create"}

\* two runs: a, and b, which starts while a is in progress; the board lookup
\* of both finds no board
OverlapNext ==
  \/ MBeginWith("a", {NoProject}) /\ mPc["a"] = "idle" /\ UNCHANGED mOther
  \/ MBeginWith("b", {NoProject}) /\ mPc["b"] = "idle" /\ InProgress("a")
       /\ UNCHANGED mOther
  \/ \E r \in RunIds : MRun(r)

\* the monitor's world at the start
MWorldIn(worlds) ==
  /\ \E w \in worlds :
       /\ tracker = w.tracker
       /\ procFile = IF w.file = "missing" THEN MissingFile
                     ELSE JsonFile([processed_paper_ids |-> {P1}])
  /\ env \in Envs
  /\ board = {}
  /\ mState = [r \in RunIds |-> DefaultProcState]
  /\ processed_ids = [r \in RunIds |-> {}]
  /\ current_paper_ids = [r \in RunIds |-> <<>>]
  /\ mRow = [r \in RunIds |-> 1]
  /\ new_issues_created = [r \in RunIds |-> 0]
  /\ project_id = [r \in RunIds |-> NoProject]
  /\ mLog = [r \in RunIds |-> <<>>]
  /\ mSaved = [r \in RunIds |-> NotSaved]
  /\ mRuns = 0
  /\ mMissing = [r \in RunIds |-> <<>>]
  /\ mOutcome = [r \in RunIds |-> "none"]
  /\ mReads = [r \in RunIds |-> NoMonReads]

MWorld == MWorldIn(MonWorlds)

\* runs one after the other
MInit ==
  /\ MWorld
  /\ mSheet \in MonSheets
  /\ mPc = [r \in RunIds |-> IF r = "a" THEN "idle" ELSE "off"]

\* runs that may overlap
OverlapInit ==
  /\ MWorld
  /\ mSheet \in OverlapSheets
  /\ mPc = [r \in RunIds |-> "idle"]

\* the monitor is not running
MOff ==
  /\ mSheet = <<>>
  /\ procFile = MissingFile
  /\ board = {}
  /\ mPc = [r \in RunIds |-> "off"]
  /\ mState = [r \in RunIds |-> DefaultProcState]
  /\ processed_ids = [r \in RunIds |-> {}]
  /\ current_paper_ids = [r \in RunIds |-> <<>>]
  /\ mRow = [r \in RunIds |-> 1]
  /\ new_issues_created = [r \in RunIds |-> 0]
  /\ project_id = [r \in RunIds |-> NoProject]
  /\ mLog = [r \in RunIds |-> <<>>]
  /\ mSaved = [r \in RunIds |-> NotSaved]
  /\ mRuns = 0
  /\ mMissing = [r \in RunIds |-> <<>>]
  /\ mOutcome = [r \in RunIds |-> "none"]
  /\ mReads = [r \in RunIds |-> NoMonReads]

\* the updater is not running
UOff ==
  /\ sheet = <<>>
  /\ stateFile = MissingFile
  /\ uPc = "off"
  /\ state = DefaultState
  /\ last_updated = Empty
  /\ sheet_data = <<>>
  /\ issue_mapping = Empty
  /\ uRow = 1
  /\ updates_made = 0
  /\ runs = 0
  /\ writes = NoWrites
  /\ rowLog = <<>>
  /\ saved = "none"
  /\ prevData = <<>>
  /\ prevOk = FALSE
  /\ prevFailed = {}
  /\ diag = {}
  /\ track = FALSE
  /\ missing_vars = <<>>
  /\ uOutcome = "none"
  /\ uReads = NoReads
  /\ loaded = DefaultState

\* no pure function is being called
FnOff == [pc |-> "off"]

Init == UInit /\ track = FALSE /\ MOff /\ fn = FnOff

Next == UNext

\* the updater, run after run
Spec == Init /\ [][Next]_vars

HistInit == UInit /\ track = TRUE /\ MOff /\ fn = FnOff

\* the updater, run after run, each run keeping the summary of the one before
HistSpec == HistInit /\ [][Next]_vars

MonInit == UOff /\ MInit /\ fn = FnOff

\* the monitor, run after run
MonSpec == MonInit /\ [][MNext]_vars

\* the runs of MNext, then run after run as the schedule starts them
LiveNext ==
  \/ MNext
  \/ MBeginCalm("a") /\ UNCHANGED mOther

\* the monitor on its schedule: run() is started again and again and every
\* started run goes on to its end; after the first MaxMonRuns runs the
\* remote calls succeed
MonLiveSpec == MonInit /\ [][LiveNext]_vars /\ WF_vars(LiveNext)

ProcInit ==
  /\ UOff
  /\ MWorldIn(ProcWorlds)
  /\ mSheet \in MonSheets
  /\ mPc = [r \in RunIds |-> IF r = "a" THEN "idle" ELSE "off"]
  /\ fn = FnOff

\* the monitor, run after run, in the worlds of a recorded paper
ProcSpec == ProcInit /\ [][MNext]_vars

\* the monitor, with a second run that starts while the first is in progress
OverlapStart == UOff /\ OverlapInit /\ fn = FnOff

OverlapSpec == OverlapStart /\ [][OverlapNext]_vars

BothInit == Init \/ MonInit

BothNext == UNext \/ MNext

\* one of the two scripts, chosen at the start
BothSpec == BothInit /\ [][BothNext]_vars

(***************************************************************************)
(* The row parsers (_get_sheet_data of both scripts)                       *)
(***************************************************************************)
\* str.split(sep) for a one-character sep
RECURSIVE Split(_, _)
Split(s, sep) ==
  IF \A i \in 1..Len(s) : s[i] # sep THEN <<s>>
  ELSE LET k == CHOOSE i \in 1..Len(s) : s[i] = sep /\ \A j \in 1..(i - 1) : s[j] # sep
       IN <<SubSeq(s, 1, k - 1)>> \o Split(SubSeq(s, k + 1, Len(s)), sep)

\* str.strip('"')
RECURSIVE StripQuotes(_)
StripQuotes(s) ==
  IF s # <<>> /\ Head(s) = "\"" THEN StripQuotes(Tail(s))
  ELSE IF s # <<>> /\ s[Len(s)] = "\"" THEN StripQuotes(SubSeq(s, 1, Len(s) - 1))
  ELSE s

\* lines = response.text.strip().split('\n')
TextLines(text) == Split(Strip(text), "\n")

\* a variant for C21: the loop starts at the first line
SkipHeaderNot(lines) == lines

\* lines[1:]
SkipHeader(lines) == Tail(lines)

\* columns = [col.strip().strip('"') for col in line.split(',')]
Columns(line) ==
  LET cols == Split(line, ",") IN [i \in 1..Len(cols) |-> StripQuotes(Strip(cols[i]))]

\* the loop of the updater's _get_sheet_data: a line that is not blank and
\* has at least 4 columns gives a record of its first four columns
RECURSIVE ParseRows(_)
ParseRows(lines) ==
  IF lines = <<>> THEN <<>>
  ELSE LET line == Head(lines)
           columns == Columns(line)
       IN (IF Strip(line) # <<>> /\ Len(columns) >= 4
           THEN <<Row(columns[1], columns[2], columns[3], columns[4])>>
           ELSE <<>>) \o ParseRows(Tail(lines))

\* the updater's _get_sheet_data on the text of a response
ParseSheetData(text) == ParseRows(SkipHeader(TextLines(text)))

\* the loop of the monitor's _get_sheet_data: a line that is not blank and
\* whose first column is not blank gives that column, trimmed and unquoted
RECURSIVE ParseIds(_)
ParseIds(lines) ==
  IF lines = <<>> THEN <<>>
  ELSE LET line == Head(lines)
           columns == Split(line, ",")
       IN (IF Strip(line) # <<>> /\ Strip(columns[1]) # <<>>
           THEN <<StripQuotes(Strip(columns[1]))>>
           ELSE <<>>) \o ParseIds(Tail(lines))

\* the monitor's _get_sheet_data on the text of a response
ParsePaperIds(text) == ParseIds(SkipHeader(TextLines(text)))

(***************************************************************************)
(* The pure functions, called on drawn inputs                              *)
(***************************************************************************)
\* label names: the two essential labels, two labels of the status table and
\* a label of neither kind
LabelNames == {"paper-review", "automated", "status-pending", "status-approved", "bug"}

\* the labels of an issue: the tracker holds a label once per issue
LabelLists ==
  {l \in SeqsUpTo(LabelNames, MaxLabels) : \A i, j \in 1..Len(l) : l[i] = l[j] => i = j}

\* statuses of a sheet row: two keys of the table, one of them in mixed case,
\* a status that is not in the table, and the empty cell
Statuses ==
  { <<"i","n","_","p","r","o","g","r","e","s","s">>,
    <<"P","e","n","d","i","n","g">>,
    <<"h","o","l","d">>,
    <<>> }

\* issue titles: of a paper; with the prefix a second time inside; with blanks
\* around the paper id; without the blank of the prefix; in lower case;
\* with a blank before the prefix; unrelated
IndexTitles ==
  { Title(P1),
    TitlePrefix \o P2 \o <<" ">> \o TitlePrefix \o P1,
    TitlePrefix \o <<" ">> \o P1 \o <<" ">>,
    <<"P","a","p","e","r"," ","R","e","v","i","e","w",":">> \o P1,
    <<"p","a","p","e","r"," ","r","e","v","i","e","w",":"," ">> \o P1,
    <<" ">> \o Title(P1),
    UnrelatedTitle }

\* the issues of a response: numbered by position
IndexInputs ==
  {[i \in 1..Len(ts) |-> Issue(i, ts[i], InitialLabels)] :
     ts \in SeqsUpTo(IndexTitles, MaxIssues)}

\* the header line of the sheet
HeaderLine ==
  <<"p","a","p","e","r","_","i","d",",","s","t","a","t","u","s",",",
    "r","e","v","i","e","w","e","r",",","n","o","t","e","s">>

\* data lines of a response, each with its comma-separated fields, trimmed
\* and unquoted: a plain line; a line with a quoted field, padded fields, an
\* empty last field and a carriage return; a line with a quoted field that
\* holds a comma (five fields: embedded delimiters are not escaped); a blank
\* line; a line of two fields; a line whose first field is quoted with a
\* blank inside the quotes; a line whose first field holds the title prefix
SheetLines ==
  LET c == <<",">>
      q == <<"\"">>
      pending == <<"p","e","n","d","i","n","g">>
      hold == <<"h","o","l","d">>
  IN { [text |-> P1 \o c \o pending \o c \o <<"J">> \o c \o <<"W">>,
        cells |-> <<P1, pending, <<"J">>, <<"W">>>>],
       [text |-> q \o P2 \o q \o c \o <<" ">> \o hold \o <<" ">> \o c \o <<"B">>
                   \o c \o <<"\r">>,
        cells |-> <<P2, hold, <<"B">>, <<>>>>],
       [text |-> P2 \o c \o hold \o c \o q \o <<"D",","," ","J">> \o q \o c \o <<"x">>,
        cells |-> <<P2, hold, <<"D">>, <<"J">>, <<"x">>>>],
       [text |-> <<" ">>, cells |-> <<>>],
       [text |-> P1 \o c \o pending, cells |-> <<P1, pending>>],
       [text |-> q \o <<" ">> \o P1 \o q \o c \o hold \o c \o <<"B">> \o c \o <<"x">>,
        cells |-> <<<<" ">> \o P1, hold, <<"B">>, <<"x">>>>],
       [text |-> TitlePrefix \o P1 \o c \o hold \o c \o <<"B">> \o c \o <<"x">>,
        cells |-> <<TitlePrefix \o P1, hold, <<"B">>, <<"x">>>>] }

\* the text of a response: the header line, then the data lines, each after
\* a newline
RECURSIVE SheetText(_)
SheetText(lines) ==
  IF lines = <<>> THEN HeaderLine
  ELSE SheetText(SubSeq(lines, 1, Len(lines) - 1)) \o <<"\n">> \o lines[Len(lines)].text

ParseCall(lines) ==
  [pc |-> "start", kind |-> "parse", lines |-> lines, text |-> SheetText(lines),
   data |-> <<>>, paper_ids |-> <<>>, index |-> Empty]

\* reviewer and notes cells of a row; the parsers split at commas and
\* newlines only, so a cell can hold the character "|"
FingerprintCells ==
  { <<"A">>, <<"A","|","B">>, <<"B","|","C">>, <<"C">>, <<>> }

\* two states of the row of one paper: as it was when the updater applied
\* it, and as the next run reads it
FingerprintCall(was, row) ==
  [pc |-> "start", kind |-> "fingerprint", was |-> was, row |-> row,
   last_updated |-> Empty, current_data |-> <<>>, needed |-> FALSE]

FnCall(kind, current_labels, new_status, issues) ==
  [pc |-> "start", kind |-> kind, current_labels |-> current_labels,
   new_status |-> new_status, once |-> <<>>, twice |-> <<>>,
   issues |-> issues, index |-> Empty]

\* new_labels = self._update_issue_labels(issue_number, issue['labels'], status)
FnUpdateIssueLabels ==
  /\ fn.pc = "start"
  /\ fn.kind = "mapper"
  /\ fn' = [fn EXCEPT !.once = UpdateIssueLabels(fn.current_labels, fn.new_status),
                      !.pc = "once"]
  /\ UNCHANGED <<uVars, mVars, env>>

\* the same call in the next run, on the labels the first call gave the issue
FnUpdateIssueLabelsAgain ==
  /\ fn.pc = "once"
  /\ fn' = [fn EXCEPT !.twice = UpdateIssueLabels(fn.once, fn.new_status),
                      !.pc = "done"]
  /\ UNCHANGED <<uVars, mVars, env>>

\* the loop of _get_existing_issues on the issues of a response
FnBuildIndex ==
  /\ fn.pc = "start"
  /\ fn.kind = "index"
  /\ fn' = [fn EXCEPT !.index = BuildIndex(fn.issues), !.pc = "done"]
  /\ UNCHANGED <<uVars, mVars, env>>

\* sheet_data = self._get_sheet_data() of the updater, on the text alone
FnGetSheetData ==
  /\ fn.pc = "start"
  /\ fn.kind = "parse"
  /\ fn' = [fn EXCEPT !.data = ParseSheetData(fn.text), !.pc = "rows"]
  /\ UNCHANGED <<uVars, mVars, env>>

\* current_paper_ids = self._get_sheet_data() of the monitor, on the same text
FnGetPaperIds ==
  /\ fn.pc = "rows"
  /\ fn' = [fn EXCEPT !.paper_ids = ParsePaperIds(fn.text), !.pc = "ids"]
  /\ UNCHANGED <<uVars, mVars, env>>

\* the monitor creates an issue for every paper_id it parsed, on a tracker
\* without issues; the updater then lists the issues and builds its index
RECURSIVE CreateAll(_, _)
CreateAll(tr, paper_ids) ==
  IF paper_ids = <<>> THEN tr
  ELSE CreateAll(CreateIssue(tr, Head(paper_ids)), Tail(paper_ids))

FnIndexCreated ==
  /\ fn.pc = "ids"
  /\ fn' = [fn EXCEPT
              !.index = GetExistingIssues(CreateAll(tracker, fn.paper_ids), "200"),
              !.pc = "done"]
  /\ UNCHANGED <<uVars, mVars, env>>

\* a run applied the row: last_updated[paper_id] = current_data
FnStoreFingerprint ==
  /\ fn.pc = "start"
  /\ fn.kind = "fingerprint"
  /\ fn' = [fn EXCEPT
              !.last_updated = Put(Empty, fn.was.paper_id, Fingerprint(fn.was)),
              !.pc = "stored"]
  /\ UNCHANGED <<uVars, mVars, env>>

\* the next run reads the row: current_data = f"{status}|{reviewer}|{notes}";
\* "if current_data != last_update"
FnCompareFingerprint ==
  /\ fn.pc = "stored"
  /\ fn' = [fn EXCEPT
              !.current_data = Fingerprint(fn.row),
              !.needed = UpdateNeeded(fn.last_updated, fn.row.paper_id,
                                      Fingerprint(fn.row)),
              !.pc = "done"]
  /\ UNCHANGED <<uVars, mVars, env>>

FnNext ==
  \/ FnUpdateIssueLabels
  \/ FnUpdateIssueLabelsAgain
  \/ FnBuildIndex
  \/ FnGetSheetData
  \/ FnGetPaperIds
  \/ FnIndexCreated
  \/ FnStoreFingerprint
  \/ FnCompareFingerprint

FnInit ==
  /\ UOff
  /\ MOff
  /\ tracker = [filler |-> 0, issues |-> <<>>]
  /\ env = Environ("sheet", "token", "owner/repo")
  /\ fn \in {FnCall("mapper", l, st, <<>>) : l \in LabelLists, st \in Statuses}
            \cup {FnCall("index", <<>>, <<>>, issues) : issues \in IndexInputs}
            \cup {ParseCall(lines) : lines \in SeqsUpTo(SheetLines, MaxDataLines)}
            \cup {FingerprintCall(Row(P1, <<"h","o","l","d">>, r1, n1),
                                   Row(P1, <<"h","o","l","d">>, r2, n2)) :
                     r1 \in FingerprintCells, n1 \in FingerprintCells,
                     r2 \in FingerprintCells, n2 \in FingerprintCells}

\* the label mapper and the index construction on their own
FnSpec == FnInit /\ [][FnNext]_vars

(***************************************************************************)
(* Properties                                                              *)
(***************************************************************************)
Entries(log) == {log[i] : i \in 1..Len(log)}

\* the listing request of the current run of the updater has been answered
ListingDone == uPc = "loop" \/ (uPc = "done" /\ saved # "none")

ListingOk == ListingDone /\ "fetch_issues_failed" \notin diag

\* C1: in the updater, a record whose label PATCH succeeds and whose comment
\* POST fails does not get its fingerprint stored in that run; so every
\* fingerprint the loop has put in the store belongs to a record whose labels
\* were patched and whose comment was posted.
C1_CommentFailureKeepsFingerprint ==
  /\ \A e \in Entries(rowLog) :
       (e.patchOk /\ e.commentCalls = 1 /\ ~e.commentOk) => e.storedAfter = e.stored
  /\ \A e \in Entries(rowLog) :
       e.storedAfter # e.stored => (e.patchOk /\ e.commentOk)

\* C2: in the updater, a fingerprint is written to the store only by a record
\* whose label PATCH answered 200; a record whose PATCH fails gets no comment
\* POST and its stored fingerprint stays as it was.
C2_StoreOnlyAfterPatchSuccess ==
  /\ \A e \in Entries(rowLog) :
       /\ e.storedAfter # e.stored => (e.patchCalls = 1 /\ e.patchOk)
       /\ (e.patchCalls = 1 /\ ~e.patchOk) =>
            (e.commentCalls = 0 /\ e.storedAfter = e.stored)
  /\ uPc = "loop" =>
       \A paper_id \in DOMAIN last_updated :
         last_updated[paper_id] # Get(state.last_updated, paper_id, Empty) =>
           \E e \in Entries(rowLog) :
             /\ e.row.paper_id = paper_id
             /\ Fingerprint(e.row) = last_updated[paper_id]
             /\ e.patchOk

\* C2's case: a record with a stored fingerprint whose PATCH failed, after a
\* record whose PATCH succeeded
C2_Witness ==
  /\ \E e \in Entries(rowLog) : e.patchCalls = 1 /\ ~e.patchOk /\ e.inStore
  /\ \E e \in Entries(rowLog) : e.patchOk /\ e.storedAfter # e.stored

\* C3: after a run of the updater in which every write succeeded, a second
\* run with the same sheet and tracker issues no remote write at all.
C3_SecondRunIssuesNoWrite ==
  (uPc = "done" /\ saved # "none" /\ prevOk /\ prevData = sheet_data)
    => writes = NoWrites

\* C4: a record whose fingerprint equals the one stored for its paper_id gets
\* no PATCH and no comment POST and leaves the store as it is; a record whose
\* paper_id is not in the store and has an issue is never skipped.
C4_UnchangedRecordIsSkipped ==
  /\ \A e \in Entries(rowLog) :
       /\ (e.inStore /\ Fingerprint(e.row) = e.stored) =>
            (e.patchCalls = 0 /\ e.commentCalls = 0 /\ e.storedAfter = e.stored)
       /\ (e.found /\ ~e.inStore) => e.patchCalls = 1
  /\ writes.patch = Cardinality({i \in 1..Len(rowLog) : rowLog[i].patchCalls = 1})
  /\ writes.comment = Cardinality({i \in 1..Len(rowLog) : rowLog[i].commentCalls = 1})

\* C4's case: a second run skips a record whose fingerprint the first run
\* stored and saved, and applies a record whose paper_id is not in the store
C4_Witness ==
  /\ runs = 2
  /\ \E e \in Entries(rowLog) :
       e.found /\ e.inStore /\ Fingerprint(e.row) = e.stored /\ e.patchCalls = 0
  /\ \E e \in Entries(rowLog) : e.found /\ ~e.inStore /\ e.patchCalls = 1

\* C5: a record whose remote write failed in one run of the updater is not
\* skipped by the next run over the same sheet while its issue is there: the
\* PATCH is attempted again.
C5_FailedWriteIsRetried ==
  \A e \in Entries(rowLog) :
    (e.row \in prevFailed /\ prevData = sheet_data /\ e.found) => e.patchCalls = 1

\* C6: the updater and the monitor process every record of the run once, in
\* sheet order, whatever remote call fails, with no call repeated for a record,
\* and call _save_state at the end.
C6_EveryRecordOnceInOrder ==
  /\ uPc \in {"loop", "done"} =>
       /\ Len(rowLog) = IF uPc = "loop" THEN uRow - 1 ELSE Len(sheet_data)
       /\ Len(rowLog) <= Len(sheet_data)
       /\ \A i \in 1..Len(rowLog) : rowLog[i].row = sheet_data[i]
       /\ writes.patch = Cardinality({i \in 1..Len(rowLog) : rowLog[i].patchCalls = 1})
       /\ writes.comment = Cardinality({i \in 1..Len(rowLog) : rowLog[i].commentCalls = 1})
       /\ (uPc = "done" /\ sheet_data # <<>>) => saved # "none"
  /\ \A r \in RunIds :
       mPc[r] \in {"loop", "create", "done"} =>
         /\ Len(mLog[r]) = CASE mPc[r] = "loop" -> mRow[r] - 1
                             [] mPc[r] = "create" -> mRow[r]
                             [] mPc[r] = "done" -> Len(current_paper_ids[r])
         /\ Len(mLog[r]) <= Len(current_paper_ids[r])
         /\ \A i \in 1..Len(mLog[r]) :
              /\ mLog[r][i].paper_id = current_paper_ids[r][i]
              /\ mLog[r][i].searchCalls <= 1
              /\ mLog[r][i].createCalls <= 1
         /\ (mPc[r] = "done" /\ current_paper_ids[r] # <<>>) => mSaved[r].called

\* C6's case: a run of the monitor whose first record's create call failed
\* went on to search for the second record and saved
C6_Witness ==
  /\ mPc["a"] = "done"
  /\ Len(mLog["a"]) = 2
  /\ mLog["a"][1].action = "create_failed"
  /\ mLog["a"][2].searchCalls = 1
  /\ mSaved["a"].called

\* C7: the index of the updater holds every qualifying issue of the whole
\* listing, whatever its page boundaries: it is the index of the one-page
\* listing.
C7_IndexCoversWholeListing ==
  ListingOk =>
    /\ DOMAIN issue_mapping = DOMAIN BuildIndex(Listing(tracker))
    /\ \A k \in DOMAIN issue_mapping :
         issue_mapping[k].number = BuildIndex(Listing(tracker))[k].number

\* the paper ids that two or more issues of a response derive
DuplicateIds(issues) ==
  {ExtractPaperId(issues[i].title) :
     i \in {j \in 1..Len(issues) :
              /\ StartsWith(issues[j].title, TitlePrefix)
              /\ \E k \in 1..Len(issues) :
                   /\ k # j
                   /\ StartsWith(issues[k].title, TitlePrefix)
                   /\ ExtractPaperId(issues[k].title) = ExtractPaperId(issues[j].title)}}

\* C8: when two issues of the listing derive the same paper_id, the index
\* construction flags it and keeps neither as the mapping of that paper_id.
C8_DuplicateIsFlagged ==
  ListingOk =>
    \A k \in DuplicateIds(FirstPage(Listing(tracker))) :
      "duplicate_paper_id" \in diag /\ k \notin DOMAIN issue_mapping

\* C9: in the monitor, when the existence search reports an issue for an
\* unprocessed paper_id, no create call is issued for it, then or later in
\* the run, and the paper_id is in the processed set handed to _save_state.
C9_ExistingIssueIsNotCreated ==
  \A r \in RunIds :
    \A i \in 1..Len(mLog[r]) :
      (mLog[r][i].searchCalls = 1 /\ mLog[r][i].found) =>
        /\ mLog[r][i].createCalls = 0
        /\ \A j \in (i + 1)..Len(mLog[r]) :
             mLog[r][j].paper_id = mLog[r][i].paper_id =>
               (mLog[r][j].searchCalls = 0 /\ mLog[r][j].createCalls = 0)
        /\ mPc[r] # "create"
             => mLog[r][i].paper_id \in processed_ids[r]
        /\ mSaved[r].called =>
             mLog[r][i].paper_id \in mSaved[r].content.processed_paper_ids

\* C9's case: a run found the issue of a paper_id that was not in its
\* processed set, and saved the set with it
C9_Witness ==
  /\ mPc["a"] = "done"
  /\ \E e \in Entries(mLog["a"]) :
       /\ e.searchCalls = 1 /\ e.found
       /\ mSaved["a"].outcome = "ok"
       /\ procFile = JsonFile(mSaved["a"].content)
       /\ e.paper_id \in procFile.content.processed_paper_ids

IssuesTitled(title) == {i \in 1..Len(tracker.issues) : tracker.issues[i].title = title}

\* C10: a run of the monitor creates an issue exactly when its own existence
\* search reported none: once the search has said so, the create call goes
\* out and can succeed even if another run has created the issue meanwhile.
C10_OnlyOwnSearchGuardsCreate ==
  /\ \A r \in RunIds :
       \A e \in Entries(mLog[r]) :
         /\ e.createCalls = 1 => (e.searchCalls = 1 /\ ~e.found)
         /\ (e.searchCalls = 1 /\ ~e.found) => e.action # "exists"
  /\ \A r \in RunIds :
       mPc[r] = "create" =>
         ENABLED (MCreateIssue(r) /\ Len(tracker'.issues) = Len(tracker.issues) + 1)

\* C10's case: two issues of one paper_id, created by two runs whose
\* existence searches were both answered and both found nothing
C10_Witness ==
  \E paper_id \in MonIds :
    /\ Cardinality(IssuesTitled(Title(paper_id))) = 2
    /\ \A r \in RunIds :
         \E e \in Entries(mLog[r]) :
           /\ e.paper_id = paper_id
           /\ e.action = "created"
           /\ e.search = "200"
           /\ ~e.found

\* a run of the updater has ended
UEnded == uPc = "done" /\ runs > 0

\* a run r of the monitor has ended
MEnded(r) == mPc[r] = "done" /\ mOutcome[r] # "none"

\* C11: a run whose sheet fetch yields no record (empty body, error answer
\* or network error) issues no remote write and does not touch its state
\* file, in the updater and in the monitor.
C11_EmptyFetchIssuesNoWrite ==
  /\ (UEnded /\ uOutcome = "no_data") =>
       (writes = NoWrites /\ saved = "none" /\ LoadState(stateFile) = loaded)
  /\ \A r \in RunIds :
       (MEnded(r) /\ mOutcome[r] = "no_data") =>
         (mLog[r] = <<>> /\ ~mSaved[r].called)

\* the required values that are absent: not set, or set to nothing
AbsentVars(e) ==
  {name \in {"GOOGLE_SHEET_ID", "GITHUB_TOKEN", "GITHUB_REPOSITORY"} :
     \/ name = "GOOGLE_SHEET_ID" /\ e.sheet_id \in {Unset, ""}
     \/ name = "GITHUB_TOKEN" /\ e.github_token \in {Unset, ""}
     \/ name = "GITHUB_REPOSITORY" /\ e.github_repo \in {Unset, ""}}

\* C12: when a required configuration value is absent, the run of either
\* script stops before any network call and before any read or write of the
\* state file, and reports exactly the absent values as missing; a run is
\* stopped this way only then.
C12_MissingConfigStopsRun ==
  /\ (uPc # "off" /\ AbsentVars(env) # {}) =>
       /\ uPc \in {"idle", "done"}
       /\ writes = NoWrites
       /\ uReads = NoReads
       /\ saved = "none"
       /\ rowLog = <<>>
       /\ stateFile = MissingFile
       /\ UEnded => uOutcome = "config_missing"
  /\ runs > 0 => Range(missing_vars) = AbsentVars(env)
  /\ uOutcome = "config_missing" => AbsentVars(env) # {}
  /\ \A r \in RunIds :
       /\ (mPc[r] # "off" /\ AbsentVars(env) # {}) =>
            /\ mPc[r] \in {"idle", "done"}
            /\ mReads[r] = NoMonReads
            /\ mLog[r] = <<>>
            /\ ~mSaved[r].called
            /\ board = {}
            /\ MEnded(r) => mOutcome[r] = "config_missing"
       /\ MEnded(r) => Range(mMissing[r]) = AbsentVars(env)
       /\ mOutcome[r] = "config_missing" => AbsentVars(env) # {}

\* C12's case: a run of the updater stopped with two values absent (the token
\* set to nothing, the repository not set) and named those two
C12_Witness ==
  /\ UEnded
  /\ uOutcome = "config_missing"
  /\ Range(missing_vars) = {"GITHUB_TOKEN", "GITHUB_REPOSITORY"}
  /\ uReads = NoReads

\* C13: a run that ends because a required value is missing exits with a
\* status that is not zero and not the status of a successful run; a run that
\* ends any other way exits with the success status.
C13_MissingConfigExitsNonZero ==
  /\ UEnded =>
       IF uOutcome = "config_missing"
       THEN ExitStatus(uOutcome) # 0 /\ ExitStatus(uOutcome) # ExitStatus("completed")
       ELSE ExitStatus(uOutcome) = 0
  /\ \A r \in RunIds :
       MEnded(r) =>
         IF mOutcome[r] = "config_missing"
         THEN /\ ExitStatus(mOutcome[r]) # 0
              /\ ExitStatus(mOutcome[r]) # ExitStatus("completed")
         ELSE ExitStatus(mOutcome[r]) = 0

\* the label mapper has been called
Mapped == fn.pc \in {"once", "done"} /\ fn.kind = "mapper"

KnownStatus(new_status) == Lower(new_status) \in DOMAIN status_labels

\* C14: for a status whose lower-cased value is a key of the status table,
\* the output of the label mapper, as a set, is (current labels minus the
\* labels of the table) plus the label of the status plus paper-review and
\* automated; it has exactly one label of the table and no label twice.
C14_MapperOutputForKnownStatus ==
  (Mapped /\ KnownStatus(fn.new_status)) =>
    /\ Range(fn.once) =
         (Range(fn.current_labels) \ status_label_names)
         \cup {status_labels[Lower(fn.new_status)]}
         \cup {"paper-review", "automated"}
    /\ Cardinality(Range(fn.once) \cap status_label_names) = 1
    /\ Cardinality(Range(fn.once)) = Len(fn.once)

\* C14's case, Scenario B: {paper-review, automated, status-pending} with
\* in_progress gives {paper-review, automated, status-in-progress}
C14_Witness ==
  /\ Mapped
  /\ fn.current_labels = <<"paper-review", "automated", "status-pending">>
  /\ fn.new_status = <<"i","n","_","p","r","o","g","r","e","s","s">>
  /\ Range(fn.once) = {"paper-review", "automated", "status-in-progress"}

\* C15: for a status that is not a key of the status table, every label of
\* the table that the issue has is still in the output of the label mapper.
C15_UnknownStatusKeepsStatusLabels ==
  (Mapped /\ ~KnownStatus(fn.new_status)) =>
    (Range(fn.current_labels) \cap status_label_names) \subseteq Range(fn.once)

\* C16: the label mapper applied to its own output with the same status
\* gives the same set of labels, for statuses in the table and not.
C16_MapperIsIdempotent ==
  (fn.pc = "done" /\ fn.kind = "mapper") => Range(fn.twice) = Range(fn.once)

\* C16's case: the first call replaced a status label by another one and
\* added a missing essential label, and the second call was made
C16_Witness ==
  /\ fn.pc = "done"
  /\ fn.kind = "mapper"
  /\ KnownStatus(fn.new_status)
  /\ "status-approved" \in Range(fn.current_labels)
  /\ "automated" \notin Range(fn.current_labels)
  /\ Range(fn.once) # Range(fn.current_labels)

\* the text of a title after its leading prefix, trimmed
AfterPrefix(title) == Strip(SubSeq(title, Len(TitlePrefix) + 1, Len(title)))

\* C17: the index has an entry for an issue exactly when its title starts
\* with 'Paper Review: ', under the key that is the rest of the title after
\* that leading prefix, trimmed; other issues are left out.
C17_IndexKeyIsTitleAfterPrefix ==
  (fn.pc = "done" /\ fn.kind = "index") =>
    /\ \A i \in 1..Len(fn.issues) :
         IF StartsWith(fn.issues[i].title, TitlePrefix)
         THEN AfterPrefix(fn.issues[i].title) \in DOMAIN fn.index
         ELSE \A k \in DOMAIN fn.index : fn.index[k].number # fn.issues[i].number
    /\ \A k \in DOMAIN fn.index : k = AfterPrefix(fn.index[k].title)

\* C18: when the only issue the listing returns has a title without the
\* prefix, every paper_id the monitor searches for is not found and goes to
\* the create call.
C18_UnprefixedIssueNeverFound ==
  ( /\ Len(Listing(tracker)) = 1
    /\ ~StartsWith(Listing(tracker)[1].title, TitlePrefix) ) =>
    \A r \in RunIds :
      \A e \in Entries(mLog[r]) :
        (e.searchCalls = 1 /\ e.search = "200") =>
          (~e.found /\ e.action \in {"creating", "created", "create_failed"})

\* C19: in the monitor, an issue creation that succeeded is counted and its
\* paper_id is in the processed set, whether the board lookup, the attach
\* call or the draft fallback failed or not.
C19_BoardFailureKeepsCreation ==
  \A r \in RunIds :
    /\ \A e \in Entries(mLog[r]) :
         (e.createCalls = 1 /\ e.createOk) =>
           /\ e.action = "created"
           /\ e.paper_id \in processed_ids[r]
           /\ IssuesTitled(Title(e.paper_id)) # {}
           /\ mSaved[r].called =>
                e.paper_id \in mSaved[r].content.processed_paper_ids
    /\ new_issues_created[r] =
         Cardinality({i \in 1..Len(mLog[r]) : mLog[r][i].createOk})

\* C19's case: a run with a board created an issue, neither the attach call
\* nor the draft fallback put it on the board, and the run saved its
\* processed set
C19_Witness ==
  /\ mPc["a"] = "done"
  /\ project_id["a"] # NoProject
  /\ mSaved["a"].outcome = "ok"
  /\ \E e \in Entries(mLog["a"]) :
       /\ e.createOk
       /\ e.attach = "failed"
       /\ e.paper_id \in mSaved["a"].content.processed_paper_ids
       /\ \A item \in board : item.title # Title(e.paper_id)

\* C20: after a state save that was cut short at any point, the next load
\* returns the whole mapping from before the save or the whole new mapping.
C20_SaveLeavesOldOrNewMapping ==
  (UEnded /\ saved # "none") => LoadState(stateFile) \in {loaded, state}

\* the records the fields of the given data lines stand for, line by line
Records(lines) ==
  LET full == SelectSeq(lines, LAMBDA l : l.cells # <<>>)
  IN [i \in 1..Len(full) |->
        Row(full[i].cells[1], full[i].cells[2], full[i].cells[3], full[i].cells[4])]

BlankCount(lines) == Cardinality({i \in 1..Len(lines) : lines[i].cells = <<>>})

\* C21: for a text with a header line whose non-blank data lines all have at
\* least the required fields (4 for the updater, a non-empty first field for
\* the monitor), the parser returns line count - 1 - blank-line count
\* records, in the order of the lines, each with its fields in the order
\* paper_id, status, reviewer, notes; the header line is not among them.
C21_ParserReturnsDataLinesInOrder ==
  (fn.kind = "parse" /\ fn.pc \in {"ids", "done"}) =>
    LET full == SelectSeq(fn.lines, LAMBDA l : l.cells # <<>>)
        count == (Len(fn.lines) + 1) - 1 - BlankCount(fn.lines)
    IN /\ (\A i \in 1..Len(full) : Len(full[i].cells) >= 4) =>
            /\ Len(fn.data) = count
            /\ fn.data = Records(fn.lines)
       /\ (\A i \in 1..Len(full) : full[i].cells[1] # <<>>) =>
            /\ Len(fn.paper_ids) = count
            /\ fn.paper_ids = [i \in 1..Len(full) |-> full[i].cells[1]]

\* C21's case: a text with a blank line between two data lines, the second
\* with quoted and padded fields, was parsed into two records
C21_Witness ==
  /\ fn.kind = "parse"
  /\ fn.pc = "ids"
  /\ Len(fn.lines) = 3
  /\ fn.lines[2].cells = <<>>
  /\ Len(fn.data) = 2
  /\ fn.data[2] = Row(P2, <<"h","o","l","d">>, <<"B">>, <<>>)
  /\ fn.paper_ids = <<P1, P2>>

StartedEmpty == tracker.filler = 0 /\ IssuesTitled(MentionTitle) = {}

\* C23: across monitor runs that do not overlap, at most one create call
\* succeeds per paper_id, whatever the other remote calls (a failed existence
\* search included), the load and the save do, and also when the paper_id
\* is on several rows.
C23_AtMostOneCreatePerPaperId ==
  StartedEmpty => \A id \in MonIds : Cardinality(IssuesTitled(Title(id))) <= 1

\* C24: two records that differ in status, reviewer or notes never have the
\* same fingerprint, so a row whose mutable fields changed since the
\* fingerprint was stored is applied again and not skipped.
C24_FingerprintIsInjective ==
  ( /\ fn.kind = "fingerprint"
    /\ fn.pc = "done"
    /\ \/ fn.was.status # fn.row.status
       \/ fn.was.reviewer # fn.row.reviewer
       \/ fn.was.notes # fn.row.notes ) =>
    /\ fn.current_data # fn.last_updated[fn.was.paper_id]
    /\ fn.needed

\* C27: for every paper_id the monitor's parser produces, the issue the
\* monitor creates with the title 'Paper Review: {paper_id}' is in the
\* updater's index under that paper_id, so the updater's record of the same
\* sheet line finds the issue.
C27_CreatedIssueIsIndexedUnderPaperId ==
  (fn.kind = "parse" /\ fn.pc = "done") =>
    /\ \A i \in 1..Len(fn.paper_ids) :
         /\ fn.paper_ids[i] \in DOMAIN fn.index
         /\ fn.index[fn.paper_ids[i]].title = TitlePrefix \o fn.paper_ids[i]
    /\ \A j \in 1..Len(fn.data) : fn.data[j].paper_id \in DOMAIN fn.index

\* the paper_ids whose update returned success in the current run
Succeeded == {e.row.paper_id : e \in {x \in Entries(rowLog) : x.patchCalls = 1 /\ x.patchOk}}

\* C26: the state handed to the save at the end of a run of the updater
\* differs from the state loaded at its start only in the fingerprints of
\* the paper_ids whose update returned success in the run: the fingerprint
\* of every other paper_id (not in the sheet, without issue, unchanged, or
\* with a failed write) and every other key of the state are the same.
C26_RunChangesOnlyAppliedFingerprints ==
  (UEnded /\ saved # "none") =>
    LET before == Get(loaded, "last_updated", Empty)
        after == state.last_updated
    IN /\ \A k \in (DOMAIN before \cup DOMAIN after) \ Succeeded :
            /\ k \in DOMAIN before
            /\ k \in DOMAIN after
            /\ after[k] = before[k]
       /\ DOMAIN state = DOMAIN loaded \cup {"last_updated"}
       /\ \A key \in DOMAIN loaded \ {"last_updated"} : state[key] = loaded[key]
       /\ saved = "ok" => stateFile = JsonFile(state)

\* C26's case: the run loaded the fingerprint of P1, the PATCH for the
\* changed row of P1 failed and the update of P2 succeeded; the saved state
\* holds the old fingerprint of P1 and the new one of P2
C26_Witness ==
  /\ UEnded
  /\ saved = "ok"
  /\ P1 \in DOMAIN loaded.last_updated
  /\ P2 \notin DOMAIN loaded.last_updated
  /\ \E e \in Entries(rowLog) :
       e.row.paper_id = P1 /\ e.patchCalls = 1 /\ ~e.patchOk
  /\ P2 \in Succeeded
  /\ stateFile.content.last_updated[P1] = loaded.last_updated[P1]
  /\ P2 \in DOMAIN stateFile.content.last_updated

\* the processed set a load of sheet_state.json would give
FileIds == Get(LoadProcState(procFile), "processed_paper_ids", {})

\* C28: across runs of the monitor in which the state file loads, the
\* processed set only grows: a paper_id of the loaded set is in the set
\* handed to the save, no existence search and no create call is issued for
\* it in the run, and, the file staying loadable, it is in the set every
\* later run loads, whether its issue is still on the tracker or not.
C28_ProcessedSetOnlyGrows ==
  /\ [](\A r \in RunIds :
          InProgress(r) =>
            /\ mState[r].processed_paper_ids \subseteq processed_ids[r]
            /\ \A e \in Entries(mLog[r]) :
                 e.paper_id \in mState[r].processed_paper_ids =>
                   (e.searchCalls = 0 /\ e.createCalls = 0 /\ e.action = "processed"))
  /\ [][\A r \in RunIds :
          (InProgress(r) /\ mPc'[r] = "done") =>
            /\ mSaved'[r].called
            /\ mState[r].processed_paper_ids
                 \subseteq mSaved'[r].content.processed_paper_ids]_vars
  /\ [][procFile'.kind = "json" => FileIds \subseteq FileIds']_vars

\* C28's case: P1 was in the loaded set and its issue is not on the tracker;
\* the run took the row of P1 without a search or a create call and saved a
\* set with P1
C28_Witness ==
  /\ MEnded("a")
  /\ mSaved["a"].outcome = "ok"
  /\ IssuesTitled(Title(P1)) = {}
  /\ \E e \in Entries(mLog["a"]) :
       e.paper_id = P1 /\ e.action = "processed" /\ e.searchCalls = 0
  /\ P1 \in FileIds

\* C25: a paper_id whose create call failed is not put in the processed set
\* by that failure, so a later run attempts it again; when the remote calls
\* come to succeed and the sheet keeps its rows, every paper_id of the sheet
\* is eventually in the processed set with an issue titled
\* 'Paper Review: {paper_id}' on the tracker.
C25_FailedCreateIsRetriedUntilDone ==
  /\ [](\A r \in RunIds :
          \A e \in Entries(mLog[r]) :
            ( /\ e.action = "create_failed"
              /\ \A x \in Entries(mLog[r]) :
                   x.paper_id = e.paper_id => x.action \notin {"created", "exists"} ) =>
              e.paper_id \notin processed_ids[r])
  /\ \A id \in MonIds :
       (ValidateEnvironment(env) /\ id \in Range(mSheet)) =>
         <>(id \in processed_ids["a"] /\ IssuesTitled(Title(id)) # {})

====
